---- MODULE Spec2Model ----
(***************************************************************************)
(* A model of deciles_chart/core.py: the Table Reader (get_measure_tables, *)
(* a generator), the Table Validator (is_measure_table, a decorator) and   *)
(* the Row Filter (drop_rows), together with the Decile Aggregator that    *)
(* the tests exercise (get_deciles_table).                                 *)
(*                                                                         *)
(* Strings that the code takes apart (file names) are sequences of         *)
(* one-character strings; strings that it only compares (column names,     *)
(* attribute keys) are TLA+ strings.                                       *)
(***************************************************************************)
EXTENDS Integers, Sequences, FiniteSets, TLC

VARIABLES
    root,      \* the directory tree on disk (a path record)
    gen,       \* the generator object made by get_measure_tables(path)
    out,       \* outcome of the last next() on the generator
    yielded,   \* the tables the generator has yielded so far, in order
    frames,    \* heap of DataFrame objects; an object's identity is its index
    dicts,     \* heap of attrs mappings; an object's identity is its index
    calls,     \* the mock's record of its calls: call_count and call_args
    ret        \* outcome of the last call of wrapper / drop_rows / get_deciles_table

vars == <<root, gen, out, yielded, frames, dicts, calls, ret>>

readerVars == <<root, gen, out, yielded>>
tableVars  == <<frames, dicts, calls, ret>>

(***************************************************************************)
(* Bounds.                                                                 *)
(***************************************************************************)
MaxEntries == 2    \* entries of the scanned directory
MaxRows    == 2    \* rows of a measure table
MaxCalls   == 2    \* calls made in one behaviour of the table specification

(***************************************************************************)
(* Python sequence indexing, as used on DataFrame.columns.                 *)
(***************************************************************************)
\* seq[i] for a negative i: the element counted from the end, or IndexError.
PyIndexOk(seq, i) == /\ i < 0
                     /\ Len(seq) + i >= 0

PyIndex(seq, i) == seq[Len(seq) + i + 1]

\* seq[:stop] for a negative stop: all but the last -stop elements.
PySliceTo(seq, stop) ==
    IF Len(seq) + stop > 0 THEN SubSeq(seq, 1, Len(seq) + stop) ELSE <<>>

(***************************************************************************)
(* re.match(MEASURE_FNAME_REGEX, name)                                     *)
(***************************************************************************)
Letters == {"a","b","c","d","e","f","g","h","i","j","k","l","m",
            "n","o","p","q","r","s","t","u","v","w","x","y","z"}
Digits  == {"0","1","2","3","4","5","6","7","8","9"}

\* the class \w
WordChars == Letters \cup Digits \cup {"_"}

LitMeasure == <<"m","e","a","s","u","r","e","_">>
LitDotCsv  == <<".","c","s","v">>

\* the literal lit occurs in s at position pos
LiteralAt(s, pos, lit) ==
    /\ pos + Len(lit) - 1 <= Len(s)
    /\ SubSeq(s, pos, pos + Len(lit) - 1) = lit

\* the lengths k >= 1 that \w+ can consume right after "measure_" and still
\* let "\.csv" match what follows
IdLens(s) ==
    { k \in 1..Len(s) :
        /\ \A j \in 1..k : /\ Len(LitMeasure) + j <= Len(s)
                           /\ s[Len(LitMeasure) + j] \in WordChars
        /\ LiteralAt(s, Len(LitMeasure) + k + 1, LitDotCsv) }

NoMatch == [matched |-> FALSE, id |-> <<>>]

GreedyMatch(s) ==
    IF LiteralAt(s, 1, LitMeasure) /\ IdLens(s) # {}
    THEN LET k == CHOOSE m \in IdLens(s) : \A n \in IdLens(s) : n <= m
         IN  [matched |-> TRUE,
              id |-> SubSeq(s, Len(LitMeasure) + 1, Len(LitMeasure) + k)]
    ELSE NoMatch

\* re.match anchors the pattern at the start of the name only
MEASURE_FNAME_REGEX(s) == GreedyMatch(s)

(***************************************************************************)
(* _get_denominator and _get_group_by                                      *)
(***************************************************************************)
GetDenominatorOk(columns) == PyIndexOk(columns, -3)

\* an off-by-one index
GetDenominatorLastButOne(columns) == PyIndex(columns, -2)

_get_denominator(columns) == PyIndex(columns, -3)

_get_group_by(columns) == PySliceTo(columns, -4)

(***************************************************************************)
(* The file system: pathlib.Path objects as records.  kind is what         *)
(* is_dir()/is_file() see; entries is what iterdir() lists, in the order   *)
(* the platform lists it.                                                  *)
(***************************************************************************)
\* "measure_a.csv"
NameMeasureA == <<"m","e","a","s","u","r","e","_","a",".","c","s","v">>

\* "measure_sbp_1.csv"
NameMeasureSbp == <<"m","e","a","s","u","r","e","_","s","b","p","_","1",".","c","s","v">>

\* "input_2019-01-01.csv"
NameInput == <<"i","n","p","u","t","_","2","0","1","9","-","0","1","-","0","1",".","c","s","v">>

\* "measure_a.csv.bak"
NameBak == <<"m","e","a","s","u","r","e","_","a",".","c","s","v",".","b","a","k">>

\* "measure_.csv"
NameEmptyId == <<"m","e","a","s","u","r","e","_",".","c","s","v">>

\* "measure_a-1.csv"
NameDash == <<"m","e","a","s","u","r","e","_","a","-","1",".","c","s","v">>

\* "xmeasure_a.csv"
NameLeading == <<"x","m","e","a","s","u","r","e","_","a",".","c","s","v">>

\* "measure_a.txt"
NameTxt == <<"m","e","a","s","u","r","e","_","a",".","t","x","t">>

\* "measure_acsv"
NameNoDot == <<"m","e","a","s","u","r","e","_","a","c","s","v">>

\* "measures"
NameMeasures == <<"m","e","a","s","u","r","e","s">>

FileNames == {NameMeasureA, NameMeasureSbp, NameInput, NameBak, NameEmptyId,
              NameDash, NameLeading, NameTxt, NameNoDot}

DirNames == {NameMeasures, NameMeasureA}

File(n) == [name |-> n, kind |-> "file", entries |-> <<>>]

\* every subdirectory holds a measure file of its own
Dir(n) == [name |-> n, kind |-> "dir", entries |-> <<File(NameMeasureA)>>]

Entries == {File(n) : n \in FileNames} \cup {Dir(n) : n \in DirNames}

RECURSIVE SeqsUpTo(_, _)
SeqsUpTo(S, n) ==
    IF n = 0 THEN {<<>>}
    ELSE LET shorter == SeqsUpTo(S, n - 1)
         IN  shorter \cup {Append(q, x) : q \in shorter, x \in S}

\* directory listings: the names in one directory are distinct
Listings ==
    { l \in SeqsUpTo(Entries, MaxEntries) :
        \A i, j \in 1..Len(l) : i # j => l[i].name # l[j].name }

NameTmp == <<"t","m","p">>

Missing == [name |-> NameTmp, kind |-> "none", entries |-> <<>>]

RootDirs == {[name |-> NameTmp, kind |-> "dir", entries |-> l] : l \in Listings}

\* the paths a caller can pass: the directory, one of its entries, or a
\* path that does not exist
PathsOf(r) == {r, Missing} \cup {r.entries[i] : i \in 1..Len(r.entries)}

\* a guard that lets every path through
IsDirAlways(p) == TRUE

\* pathlib.Path.is_dir
IsDir(p) == p.kind = "dir"

\* a check that takes every entry for a regular file
IsFileAlways(p) == TRUE

\* pathlib.Path.is_file
IsFile(p) == p.kind = "file"

(***************************************************************************)
(* pandas.read_csv(sub_path, parse_dates=["date"]): the header row of the  *)
(* file gives the columns.  The date column is assigned by the measures    *)
(* framework, so every header has it.                                      *)
(***************************************************************************)
Headers ==
    { <<"value", "date">>,
      <<"population", "value", "date">>,
      <<"has_sbp_event", "population", "value", "date">>,
      <<"practice", "has_sbp_event", "population", "value", "date">>,
      <<"stp", "practice", "has_sbp_event", "population", "value", "date">>,
      <<"date", "value", "population", "has_sbp_event", "practice">> }

(***************************************************************************)
(* get_measure_tables(path): a generator function.  Calling it runs none   *)
(* of its body; each next() runs the body up to the next yield, to the     *)
(* end (StopIteration) or to a raise.                                      *)
(***************************************************************************)
NoGen == [status |-> "none", path |-> Missing, idx |-> 0]

NoOut == [kind |-> "none", exc |-> "", at |-> 0]

Raised(e) == [kind |-> "raise", exc |-> e, at |-> 0]

\* the measure table built from the file f with header h (lines 30-36)
MeasureTable(f, h) ==
    [file    |-> f.name,
     columns |-> h,
     attrs   |-> [id          |-> MEASURE_FNAME_REGEX(f.name).id,
                  denominator |-> _get_denominator(h),
                  group_by    |-> _get_group_by(h)]]

\* the entries at or after position from that the loop body does not skip
Candidates(entries, from) ==
    { j \in from..Len(entries) :
        /\ IsFile(entries[j])
        /\ MEASURE_FNAME_REGEX(entries[j].name).matched }

\* one next(): the new generator, the outcome, and the tables yielded so far;
\* h is the header read_csv finds if this step reads a file
Advance(g, ys, h) ==
    IF g.status = "finished"
    THEN [gen |-> g, out |-> Raised("StopIteration"), yielded |-> ys]
    ELSE IF g.status = "created" /\ ~IsDir(g.path)
    THEN [gen     |-> [g EXCEPT !.status = "finished"],
          out     |-> Raised("AttributeError"),
          yielded |-> ys]
    ELSE LET entries == g.path.entries
             cands   == Candidates(entries, g.idx + 1)
         IN  IF cands = {}
             THEN [gen     |-> [g EXCEPT !.status = "finished"],
                   out     |-> Raised("StopIteration"),
                   yielded |-> ys]
             ELSE LET j == CHOOSE m \in cands : \A n \in cands : m <= n
                  IN  IF ~GetDenominatorOk(h)
                      THEN [gen     |-> [g EXCEPT !.status = "finished"],
                            out     |-> Raised("IndexError"),
                            yielded |-> ys]
                      ELSE [gen     |-> [g EXCEPT !.status = "suspended",
                                                  !.idx = j],
                            out     |-> [kind |-> "yield", exc |-> "",
                                         at |-> Len(ys) + 1],
                            yielded |-> Append(ys, MeasureTable(entries[j], h))]

\* gen = get_measure_tables(path)
Call ==
    /\ gen.status = "none"
    /\ \E p \in PathsOf(root) :
         gen' = [status |-> "created", path |-> p, idx |-> 0]
    /\ UNCHANGED <<root, out, yielded>>
    /\ UNCHANGED tableVars

\* next(gen)
GenNext ==
    /\ gen.status # "none"
    /\ \E h \in Headers :
         LET a == Advance(gen, yielded, h)
         IN  /\ gen' = a.gen
             /\ out' = a.out
             /\ yielded' = a.yielded
    /\ UNCHANGED root
    /\ UNCHANGED tableVars

\* a mock that has not been called
NoCalls == [count |-> 0, args |-> <<>>, kwargs |-> [k \in {} |-> TRUE]]

NoRet == [op |-> "", f |-> "", args |-> <<>>, kwargs |-> [k \in {} |-> TRUE],
          kind |-> "none", exc |-> "", msg |-> "", by |-> "", value |-> 0]

InitReader ==
    /\ root \in RootDirs
    /\ gen = NoGen
    /\ out = NoOut
    /\ yielded = <<>>
    /\ frames = <<>>
    /\ dicts = <<>>
    /\ calls = NoCalls
    /\ ret = NoRet

NextReader == Call \/ GenNext

SpecReader == InitReader /\ [][NextReader]_vars

(***************************************************************************)
(* Properties of the Table Reader                                          *)
(***************************************************************************)
\* the whole name is measure_<id>.csv with <id> one or more word characters
FullForm(n) ==
    /\ Len(n) > Len(LitMeasure) + Len(LitDotCsv)
    /\ SubSeq(n, 1, Len(LitMeasure)) = LitMeasure
    /\ SubSeq(n, Len(n) - Len(LitDotCsv) + 1, Len(n)) = LitDotCsv
    /\ \A i \in (Len(LitMeasure) + 1)..(Len(n) - Len(LitDotCsv)) : n[i] \in WordChars

YieldedFiles(ys) == {ys[i].file : i \in 1..Len(ys)}

Live == {"created", "suspended"}

\* C2: scanning a directory, a next() that yields a table yields it for a
\* regular file whose whole name is measure_<id>.csv, and when the scan ends
\* the files that got a table are exactly the regular files of the directory
\* with such a name (every other name is skipped).
C2_WholeNameDiscovery ==
    [][ (gen.status \in Live /\ gen.path.kind = "dir") =>
          /\ out'.kind = "yield" => FullForm(yielded'[out'.at].file)
          /\ out' = Raised("StopIteration") =>
               YieldedFiles(yielded') =
                 { gen.path.entries[j].name : j \in
                     { k \in 1..Len(gen.path.entries) :
                         /\ gen.path.entries[k].kind = "file"
                         /\ FullForm(gen.path.entries[k].name) } } ]_vars

\* C3: a table yielded for a file measure_<id>.csv with n >= 4 columns has
\* id = <id>, denominator = the third-from-last column and group_by = the
\* columns before the last four, in order.
C3_MetadataDerivation ==
    \A i \in 1..Len(yielded) :
        LET y == yielded[i]
            n == Len(y.columns)
        IN  (FullForm(y.file) /\ n >= 4) =>
              /\ y.file = LitMeasure \o y.attrs.id \o LitDotCsv
              /\ y.attrs.denominator = y.columns[n - 2]
              /\ Len(y.attrs.group_by) = n - 4
              /\ \A c \in 1..(n - 4) : y.attrs.group_by[c] = y.columns[c]

\* tables with four columns (no group_by) and with six (two) were yielded
C3_Witness ==
    /\ \E i \in 1..Len(yielded) :
         /\ FullForm(yielded[i].file)
         /\ Len(yielded[i].columns) = 4
         /\ yielded[i].attrs.group_by = <<>>
    /\ \E i \in 1..Len(yielded) :
         /\ yielded[i].file = NameMeasureSbp
         /\ Len(yielded[i].columns) = 6
         /\ yielded[i].attrs.group_by = <<"stp", "practice">>

\* what C6 says of every step, for the exception named e
NonDirectoryRaises(e) ==
    /\ (gen.status = "none" /\ gen'.status # "none") =>
         (gen'.status = "created" /\ out'.kind = "none")
    /\ (gen.status = "created" /\ gen.path.kind # "dir") =>
         (out' = Raised(e) /\ yielded' = <<>>)

\* C6 as stated: get_measure_tables on a path that is not a directory raises
\* InvalidInputError at the first next(), not at the call, and yields nothing.
C6_InvalidInputError == [][NonDirectoryRaises("InvalidInputError")]_vars

\* C6 amended: get_measure_tables on a path that is not a directory raises
\* AttributeError at the first next(), not at the call, and yields nothing.
C6_AttributeError == [][NonDirectoryRaises("AttributeError")]_vars

\* the first next() on a regular file named measure_a.csv has raised
C6_Witness ==
    /\ gen.path = File(NameMeasureA)
    /\ gen.status = "finished"
    /\ out = Raised("AttributeError")
    /\ yielded = <<>>

\* C10: every table comes from a regular file that is a direct entry of the
\* scanned directory, and scanning a directory whose entries are all
\* subdirectories ends at once (StopIteration) with no table and no error.
C10_NoRecursion ==
    /\ \A i \in 1..Len(yielded) :
         \E j \in 1..Len(gen.path.entries) :
            /\ gen.path.entries[j].kind = "file"
            /\ gen.path.entries[j].name = yielded[i].file
    /\ ( /\ gen.path.kind = "dir"
         /\ \A j \in 1..Len(gen.path.entries) : gen.path.entries[j].kind = "dir"
         /\ out.kind # "none" )
       => (out = Raised("StopIteration") /\ yielded = <<>>)

\* a directory holding two subdirectories, one of them named measure_a.csv,
\* has been scanned to the end
C10_Witness ==
    /\ gen.path.kind = "dir"
    /\ Len(gen.path.entries) = 2
    /\ \A j \in 1..Len(gen.path.entries) : gen.path.entries[j].kind = "dir"
    /\ \E j \in 1..Len(gen.path.entries) : gen.path.entries[j].name = NameMeasureA
    /\ gen.status = "finished"
    /\ out = Raised("StopIteration")

(***************************************************************************)
(* Measure tables in memory.  A DataFrame is [columns, rows, attrs]: rows  *)
(* is the sequence of its rows, each a function from the column names to   *)
(* the cell values, and attrs is the identity (index in dicts) of its      *)
(* DataFrame.attrs mapping.                                                *)
(***************************************************************************)
Range(q) == {q[i] : i \in 1..Len(q)}

TestColumns == <<"practice", "has_sbp_event", "population", "value", "date">>

\* the fixture's columns, less any of value and date, or less population
ColumnLists ==
    { SelectSeq(TestColumns, LAMBDA c : c \notin gone) :
        gone \in (SUBSET {"value", "date"}) \cup {{"population"}} }

\* the values a cell of the column c takes
CellValues(c) ==
    IF c = "population" THEN {-1, 0, 1, 2} ELSE {1}

RowsOf(columns) ==
    { r \in [Range(columns) -> {-1, 0, 1, 2}] :
        \A c \in Range(columns) : r[c] \in CellValues(c) }

TestAttrs ==
    [id          |-> "sbp_by_practice",
     denominator |-> "population",
     group_by    |-> <<"practice">>]

\* the fixture's attrs, less any of its keys
AttrsMappings ==
    { [k \in keys |-> TestAttrs[k]] : keys \in SUBSET {"id", "denominator", "group_by"} }

NoKwargs == [k \in {} |-> TRUE]

KwargsChoices == {NoKwargs, [k \in {"copy"} |-> TRUE]}

\* positional arguments: nothing, a table, or a table and one more argument
ArgsChoices(fr) ==
    {<<>>} \cup {<<t>> : t \in 1..Len(fr)} \cup {<<t, 0>> : t \in 1..Len(fr)}

Returned(by, v, fr, ds, cs) ==
    [kind |-> "return", exc |-> "", msg |-> "", by |-> by, value |-> v,
     frames |-> fr, dicts |-> ds, calls |-> cs]

Failed(e, m, fr, ds, cs) ==
    [kind |-> "raise", exc |-> e, msg |-> m, by |-> "", value |-> 0,
     frames |-> fr, dicts |-> ds, calls |-> cs]

\* a comparison that keeps the rows with no negative denominator
NotNegative(v) == v >= 0

\* the comparison "> 0" of line 59
Positive(v) == v > 0

\* a result that keeps the attrs mapping of the frame it was taken from
ShareAttrs(ds, a) == [dicts |-> ds, id |-> a]

\* the result of indexing a DataFrame gets an attrs mapping of its own with
\* the same contents (DataFrame.__finalize__)
FinalizeAttrs(ds, a) == [dicts |-> Append(ds, ds[a]), id |-> Len(ds) + 1]

\* drop_rows(measure_table) with measure_table the frame t
drop_rows(fr, ds, cs, t) ==
    LET measure_table == fr[t]
        attrs         == ds[measure_table.attrs]
    IN  IF "denominator" \notin DOMAIN attrs
        THEN Failed("KeyError", "denominator", fr, ds, cs)
        ELSE LET d == attrs["denominator"]
             IN  IF d \notin Range(measure_table.columns)
                 THEN Failed("KeyError", d, fr, ds, cs)
                 ELSE LET fin == FinalizeAttrs(ds, measure_table.attrs)
                          new == [columns |-> measure_table.columns,
                                  rows    |-> SelectSeq(measure_table.rows,
                                                        LAMBDA r : Positive(r[d])),
                                  attrs   |-> fin.id]
                      IN  Returned("drop_rows", Len(fr) + 1,
                                   Append(fr, new), fin.dicts, cs)

\* func(*args, **kwargs) for the functions that get wrapped
Invoke(f, fr, ds, cs, args, kwargs) ==
    IF f = "mock"
    THEN Returned("mock", 0, fr, ds,
                  [count |-> cs.count + 1, args |-> args, kwargs |-> kwargs])
    ELSE IF Len(args) # 1 \/ DOMAIN kwargs # {}
    THEN Failed("TypeError", "", fr, ds, cs)
    ELSE drop_rows(fr, ds, cs, args[1])

\* a wrapper that does not look at the date column
WrapperNoDateCheck(f, fr, ds, cs, args, kwargs) ==
    IF Len(args) = 0
    THEN Failed("IndexError", "", fr, ds, cs)
    ELSE LET measure_table == fr[args[1]]
             attrs         == ds[measure_table.attrs]
         IN  IF "value" \notin Range(measure_table.columns)
             THEN Failed("AssertionError", "Missing value column", fr, ds, cs)
             ELSE IF "id" \notin DOMAIN attrs
             THEN Failed("AssertionError", "Missing id attribute", fr, ds, cs)
             ELSE IF "denominator" \notin DOMAIN attrs
             THEN Failed("AssertionError", "Missing denominator attribute", fr, ds, cs)
             ELSE IF "group_by" \notin DOMAIN attrs
             THEN Failed("AssertionError", "Missing group_by attribute", fr, ds, cs)
             ELSE Invoke(f, fr, ds, cs, args, kwargs)

\* a wrapper that passes the table on and drops the other arguments
WrapperTableOnly(f, fr, ds, cs, args, kwargs) ==
    IF Len(args) = 0
    THEN Failed("IndexError", "", fr, ds, cs)
    ELSE LET measure_table == fr[args[1]]
             attrs         == ds[measure_table.attrs]
         IN  IF "value" \notin Range(measure_table.columns)
             THEN Failed("AssertionError", "Missing value column", fr, ds, cs)
             ELSE IF "date" \notin Range(measure_table.columns)
             THEN Failed("AssertionError", "Missing date column", fr, ds, cs)
             ELSE IF "id" \notin DOMAIN attrs
             THEN Failed("AssertionError", "Missing id attribute", fr, ds, cs)
             ELSE IF "denominator" \notin DOMAIN attrs
             THEN Failed("AssertionError", "Missing denominator attribute", fr, ds, cs)
             ELSE IF "group_by" \notin DOMAIN attrs
             THEN Failed("AssertionError", "Missing group_by attribute", fr, ds, cs)
             ELSE Invoke(f, fr, ds, cs, <<args[1]>>, NoKwargs)

\* is_measure_table(f)(*args, **kwargs)
wrapper(f, fr, ds, cs, args, kwargs) ==
    IF Len(args) = 0
    THEN Failed("IndexError", "", fr, ds, cs)
    ELSE LET measure_table == fr[args[1]]
             attrs         == ds[measure_table.attrs]
         IN  IF "value" \notin Range(measure_table.columns)
             THEN Failed("AssertionError", "Missing value column", fr, ds, cs)
             ELSE IF "date" \notin Range(measure_table.columns)
             THEN Failed("AssertionError", "Missing date column", fr, ds, cs)
             ELSE IF "id" \notin DOMAIN attrs
             THEN Failed("AssertionError", "Missing id attribute", fr, ds, cs)
             ELSE IF "denominator" \notin DOMAIN attrs
             THEN Failed("AssertionError", "Missing denominator attribute", fr, ds, cs)
             ELSE IF "group_by" \notin DOMAIN attrs
             THEN Failed("AssertionError", "Missing group_by attribute", fr, ds, cs)
             ELSE Invoke(f, fr, ds, cs, args, kwargs)

\* the record of a call and its outcome
Outcome(op, f, args, kwargs, r) ==
    [op |-> op, f |-> f, args |-> args, kwargs |-> kwargs,
     kind |-> r.kind, exc |-> r.exc, msg |-> r.msg, by |-> r.by, value |-> r.value]

\* is_measure_table(f)(*args, **kwargs) for a wrapped function f
CallWrapper ==
    /\ calls.count < MaxCalls
    /\ Len(frames) <= MaxCalls
    /\ \E f \in {"mock", "drop_rows"}, args \in ArgsChoices(frames),
          kwargs \in KwargsChoices :
         LET r == wrapper(f, frames, dicts, calls, args, kwargs)
         IN  /\ frames' = r.frames
             /\ dicts' = r.dicts
             /\ calls' = r.calls
             /\ ret' = Outcome("wrapper", f, args, kwargs, r)
    /\ UNCHANGED readerVars

\* drop_rows(measure_table), as the module defines it
CallDropRows ==
    /\ Len(frames) <= MaxCalls
    /\ \E t \in 1..Len(frames) :
         LET r == drop_rows(frames, dicts, calls, t)
         IN  /\ frames' = r.frames
             /\ dicts' = r.dicts
             /\ calls' = r.calls
             /\ ret' = Outcome("drop_rows", "", <<t>>, NoKwargs, r)
    /\ UNCHANGED readerVars

InitTable ==
    /\ root = [name |-> NameTmp, kind |-> "dir", entries |-> <<>>]
    /\ gen = NoGen
    /\ out = NoOut
    /\ yielded = <<>>
    /\ \E columns \in ColumnLists :
         \E rows \in SeqsUpTo(RowsOf(columns), MaxRows) :
            frames = <<[columns |-> columns, rows |-> rows, attrs |-> 1]>>
    /\ \E a \in AttrsMappings : dicts = <<a>>
    /\ calls = NoCalls
    /\ ret = NoRet

NextTable == CallWrapper \/ CallDropRows

SpecTable == InitTable /\ [][NextTable]_vars

(***************************************************************************)
(* Properties of the Table Validator and the Row Filter                    *)
(***************************************************************************)
\* the frame t lacks a required column or a required attrs key
Lacking(fr, ds, t) ==
    \/ ~({"value", "date"} \subseteq Range(fr[t].columns))
    \/ ~({"id", "denominator", "group_by"} \subseteq DOMAIN ds[fr[t].attrs])

\* the positions of the rows whose cell in column d is greater than zero
PositiveRows(rows, d) == {i \in 1..Len(rows) : rows[i][d] > 0}

\* the k-th smallest member of the set of positions P
Nth(P, k) == CHOOSE i \in P : Cardinality({j \in P : j <= i}) = k

\* the attrs of frame t name a denominator column of frame t
NamesDenominator(fr, ds, t) ==
    /\ "denominator" \in DOMAIN ds[fr[t].attrs]
    /\ ds[fr[t].attrs]["denominator"] \in Range(fr[t].columns)

\* C1: when the attrs of t name a denominator column d, the row filter
\* returns, without error, a table with the columns of t whose rows are the
\* rows of t with d > 0, whole and in the order they have in t.
C1_RowFilter ==
    (ret.op = "drop_rows" /\ NamesDenominator(frames, dicts, ret.args[1])) =>
        /\ ret.kind = "return"
        /\ LET t    == frames[ret.args[1]]
               res  == frames[ret.value]
               d    == dicts[t.attrs]["denominator"]
               keep == PositiveRows(t.rows, d)
           IN  /\ res.columns = t.columns
               /\ Len(res.rows) = Cardinality(keep)
               /\ \A k \in 1..Len(res.rows) : res.rows[k] = t.rows[Nth(keep, k)]

\* of two rows the one with denominator 0 went and the one with 1 stayed
C1_Witness ==
    /\ ret.op = "drop_rows"
    /\ ret.kind = "return"
    /\ ret.args = <<1>>
    /\ frames[1].columns = TestColumns
    /\ Len(frames[1].rows) = 2
    /\ frames[1].rows[1]["population"] = 0
    /\ frames[1].rows[2]["population"] = 1
    /\ frames[ret.value].rows = <<frames[1].rows[2]>>

\* C4: a guarded call on a table that lacks one of the columns value, date
\* or one of the attrs keys id, denominator, group_by raises AssertionError
\* and the wrapped function is not invoked.
C4_ValidatorRejects ==
    [][ ( /\ ret'.op = "wrapper"
          /\ Len(ret'.args) >= 1
          /\ Lacking(frames, dicts, ret'.args[1]) ) =>
            /\ ret'.kind = "raise"
            /\ ret'.exc = "AssertionError"
            /\ calls' = calls
            /\ frames' = frames
            /\ dicts' = dicts ]_vars

\* a table complete but for its date column was refused, the mock not called
C4_Witness ==
    /\ ret.op = "wrapper"
    /\ ret.f = "mock"
    /\ ret.args = <<1>>
    /\ Range(frames[1].columns) = Range(TestColumns) \ {"date"}
    /\ DOMAIN dicts[frames[1].attrs] = {"id", "denominator", "group_by"}
    /\ ret.exc = "AssertionError"
    /\ ret.msg = "Missing date column"
    /\ calls = NoCalls

\* C5: a guarded call on a table with both columns and all three keys
\* invokes the wrapped function once with the arguments it received, gives
\* back that function's result, and leaves every table and attrs mapping
\* that existed as it was.
C5_ValidatorPassThrough ==
    [][ ( /\ ret'.op = "wrapper"
          /\ Len(ret'.args) >= 1
          /\ ~Lacking(frames, dicts, ret'.args[1]) ) =>
            LET r == Invoke(ret'.f, frames, dicts, calls, ret'.args, ret'.kwargs)
            IN  /\ ret'.f = "mock" =>
                     /\ calls' = [count  |-> calls.count + 1,
                                  args   |-> ret'.args,
                                  kwargs |-> ret'.kwargs]
                     /\ ret'.kind = "return"
                     /\ ret'.by = "mock"
                /\ ret'.f # "mock" => calls' = calls
                /\ ret' = Outcome("wrapper", ret'.f, ret'.args, ret'.kwargs, r)
                /\ Len(frames') = Len(r.frames)
                /\ \A i \in 1..Len(frames) : frames'[i] = frames[i]
                /\ \A i \in 1..Len(dicts) : dicts'[i] = dicts[i] ]_vars

\* the mock was called once with the table, a second argument and a keyword
C5_Witness ==
    /\ ret.op = "wrapper"
    /\ ret.f = "mock"
    /\ ret.args = <<1, 0>>
    /\ DOMAIN ret.kwargs = {"copy"}
    /\ ret.kind = "return"
    /\ calls = [count |-> 1, args |-> <<1, 0>>, kwargs |-> ret.kwargs]

\* C7: the row filter, called on a table that lacks a required column or
\* attrs key, raises the validator's AssertionError and filters nothing.
C7_RowFilterGated ==
    (ret.op = "drop_rows" /\ Lacking(frames, dicts, ret.args[1])) =>
        (ret.kind = "raise" /\ ret.exc = "AssertionError")

\* C8: the table the row filter returns is not its argument, its attrs
\* mapping is not the argument's but has the same contents, and the
\* argument's rows and attrs are after the call what they were before.
C8_NonAliasing ==
    [][ (ret'.by = "drop_rows" /\ ret'.kind = "return") =>
          LET t == ret'.args[1]
              r == ret'.value
          IN  /\ r # t
              /\ frames'[r].attrs # frames[t].attrs
              /\ dicts'[frames'[r].attrs] = dicts[frames[t].attrs]
              /\ frames'[t] = frames[t]
              /\ dicts'[frames[t].attrs] = dicts[frames[t].attrs] ]_vars

\* a table of two rows, both with a positive denominator, was filtered
C8_Witness ==
    /\ ret.op = "drop_rows"
    /\ ret.kind = "return"
    /\ ret.args = <<1>>
    /\ Len(frames[1].rows) = 2
    /\ \A i \in 1..2 : frames[1].rows[i]["population"] > 0
    /\ ret.value = 2
    /\ frames[2].rows = frames[1].rows
    /\ frames[2].attrs = 2
    /\ dicts[2] = dicts[1]

(***************************************************************************)
(* The Decile Aggregator, get_deciles_table.  The deciles column holds k   *)
(* for the fraction k/10 and the value column of the result holds ten      *)
(* times the quantile, which keeps the interpolation in the integers.      *)
(***************************************************************************)
Deciles == <<1, 2, 3, 4, 5, 6, 7, 8, 9>>

DecilesColumns == <<"date", "deciles", "value">>

\* the values of the rows of every date, whatever date is asked for
ValuesOfAnyDate(rows, date) ==
    [i \in 1..Len(rows) |-> rows[i]["value"]]

\* the values of the rows of one date, in row order
ValuesOfDate(rows, date) ==
    LET of == SelectSeq(rows, LAMBDA r : r["date"] = date)
    IN  [i \in 1..Len(of) |-> of[i]["value"]]

RECURSIVE Sorted(_)
\* the values in ascending order
Sorted(vs) ==
    IF Len(vs) = 0 THEN <<>>
    ELSE LET m == CHOOSE i \in 1..Len(vs) : \A j \in 1..Len(vs) : vs[i] <= vs[j]
         IN  <<vs[m]>> \o Sorted(SubSeq(vs, 1, m - 1) \o SubSeq(vs, m + 1, Len(vs)))

\* ten times the quantile at k/10 of the non-empty vs: linear interpolation
\* between the order statistics around the rank index (k/10)(n - 1)
Quantile10(vs, k) ==
    LET sv    == Sorted(vs)
        pos10 == k * (Len(sv) - 1)
        lo    == pos10 \div 10
        frac  == pos10 % 10
    IN  IF frac = 0 THEN 10 * sv[lo + 1]
        ELSE 10 * sv[lo + 1] + frac * (sv[lo + 2] - sv[lo + 1])

RECURSIVE DatesAscending(_)
\* the members of a set of dates, ascending
DatesAscending(D) ==
    IF D = {} THEN <<>>
    ELSE LET m == CHOOSE d \in D : \A e \in D : d <= e
         IN  <<m>> \o DatesAscending(D \ {m})

RECURSIVE Flatten(_)
Flatten(qq) == IF Len(qq) = 0 THEN <<>> ELSE qq[1] \o Flatten(Tail(qq))

\* the nine rows of one date
DecileRows(rows, date) ==
    [k \in 1..Len(Deciles) |->
        [c \in Range(DecilesColumns) |->
            IF c = "date" THEN date
            ELSE IF c = "deciles" THEN Deciles[k]
            ELSE Quantile10(ValuesOfDate(rows, date), Deciles[k])]]

\* get_deciles_table(measure_table) with measure_table the frame t
get_deciles_table(fr, ds, cs, t) ==
    LET measure_table == fr[t]
        attrs         == ds[measure_table.attrs]
        dates         == DatesAscending({measure_table.rows[i]["date"] :
                                            i \in 1..Len(measure_table.rows)})
        new == [columns |-> DecilesColumns,
                rows    |-> Flatten([i \in 1..Len(dates) |->
                                        DecileRows(measure_table.rows, dates[i])]),
                attrs   |-> Len(ds) + 1]
    IN  Returned("get_deciles_table", Len(fr) + 1, Append(fr, new),
                 Append(ds, [k \in {"group_by"} |-> attrs["group_by"]]), cs)

\* get_deciles_table(measure_table) for a measure table
CallGetDecilesTable ==
    /\ Len(frames) <= MaxCalls
    /\ \E t \in 1..Len(frames) :
         /\ frames[t].columns = TestColumns
         /\ LET r == get_deciles_table(frames, dicts, calls, t)
            IN  /\ frames' = r.frames
                /\ dicts' = r.dicts
                /\ calls' = r.calls
                /\ ret' = Outcome("get_deciles_table", "", <<t>>, NoKwargs, r)
    /\ UNCHANGED readerVars

\* the values a cell of the column c takes in the tables to aggregate
DecilesCellValues(c) ==
    IF c = "value" THEN {0, 1, 3}
    ELSE IF c = "date" THEN {1, 2}
    ELSE {1}

InitDeciles ==
    /\ root = [name |-> NameTmp, kind |-> "dir", entries |-> <<>>]
    /\ gen = NoGen
    /\ out = NoOut
    /\ yielded = <<>>
    /\ \E rows \in SeqsUpTo({ r \in [Range(TestColumns) -> 0..3] :
                               \A c \in Range(TestColumns) :
                                  r[c] \in DecilesCellValues(c) }, MaxRows) :
         frames = <<[columns |-> TestColumns, rows |-> rows, attrs |-> 1]>>
    /\ \E a \in AttrsMappings : "group_by" \in DOMAIN a /\ dicts = <<a>>
    /\ calls = NoCalls
    /\ ret = NoRet

NextDeciles == CallGetDecilesTable

SpecDeciles == InitDeciles /\ [][NextDeciles]_vars

\* the positions of the rows of a date
RowsOfDate(rows, date) == {i \in 1..Len(rows) : rows[i]["date"] = date}

\* C9: for each date that has exactly one input row, the aggregator's result
\* has exactly nine rows of that date, with deciles 0.1, ..., 0.9 ascending
\* and each value that row's value; the result is a new table that carries
\* the group_by of the input.
C9_SingleRowDegeneracy ==
    (ret.op = "get_deciles_table") =>
        LET t   == frames[ret.args[1]]
            res == frames[ret.value]
        IN  /\ ret.kind = "return"
            /\ ret.value # ret.args[1]
            /\ dicts[res.attrs]["group_by"] = dicts[t.attrs]["group_by"]
            /\ \A i \in 1..Len(t.rows) :
                 LET date == t.rows[i]["date"]
                     at   == RowsOfDate(res.rows, date)
                 IN  RowsOfDate(t.rows, date) = {i} =>
                       /\ Cardinality(at) = 9
                       /\ \A k \in 1..9 :
                            /\ res.rows[Nth(at, k)]["deciles"] = k
                            /\ res.rows[Nth(at, k)]["value"] = 10 * t.rows[i]["value"]

\* a table of two rows with different dates and values was aggregated
C9_Witness ==
    /\ ret.op = "get_deciles_table"
    /\ ret.args = <<1>>
    /\ Len(frames[1].rows) = 2
    /\ frames[1].rows[1]["date"] # frames[1].rows[2]["date"]
    /\ frames[1].rows[1]["value"] # frames[1].rows[2]["value"]
    /\ Len(frames[ret.value].rows) = 18

====
